---- MODULE Spec2Model ----
(***************************************************************************)
(* pysamstats/pileup.py: the statistic facade (stat_pileup, load_pileup,   *)
(* the registry frecs_pileup and the named stat_T / load_T functions),     *)
(* driving the position iterator of pysamstats.opt and the array loader of *)
(* pysamstats.util.  The modules opt, util and config are not part of the  *)
(* source tree at hand; their behaviour is taken from the specification    *)
(* (sections 4.2, 4.3, 4.5, 7) and is marked as such where it is defined.  *)
(***************************************************************************)
EXTENDS Integers, Sequences, FiniteSets, TLC

VARIABLES
    alignment,   \* the alignment source: reads in provider (coordinate) order
    call,        \* the entry point called and its arguments
    pc,          \* "idle" | "iterating" | "done" | "raised"
    ret,         \* outcome of the call itself (exception or fresh iterator)
    it,          \* the record generator's current state
    emitted,     \* records produced so far, in order
    err,         \* kind of the exception raised, "none" if none
    raised_at    \* place the exception was raised, "none" if none

vars == <<alignment, call, pc, ret, it, emitted, err, raised_at>>

----------------------------------------------------------------------------
\* Bounds of the model.

ContigLen == 3

MaxReads == 2

MaxDepthArg == 1

----------------------------------------------------------------------------
\* Values of the call surface (pileup.py:43-54, 84-97).

\* Python None for the integer parameters start, end, window_offset.
None == -1

\* max_depth=8000
max_depth_default == 8000

\* window_size=300
window_size_default == 300

NoFile == "None"

FastaFile == "ref.fa"

NoDtype == "None"

UserDtype == "user_dtype"

Min(a, b) == IF a <= b THEN a ELSE b

Max(a, b) == IF a >= b THEN a ELSE b

----------------------------------------------------------------------------
\* pysamstats.opt record functions.  A record function is identified by the
\* statistic it computes, whether it is the pad variant, and (coverage_gc
\* only) the window it is closed over.

rec(stat) ==
    [fn |-> "rec", stat |-> stat, window_size |-> None, window_offset |-> None]

rec_pad(stat) ==
    [fn |-> "rec_pad", stat |-> stat, window_size |-> None, window_offset |-> None]

\* opt.frecs_coverage_gc(window_size, window_offset): section 4.2.
frecs_coverage_gc(window_size, window_offset) ==
    IF window_size <= 0
    THEN [exc |-> "InvalidWindowConfig", pair |-> <<>>]
    ELSE LET off == IF window_offset = None THEN window_size \div 2
                    ELSE window_offset
         IN  [exc |-> "none",
              pair |-> << [fn |-> "rec", stat |-> "coverage_gc",
                           window_size |-> window_size, window_offset |-> off],
                          [fn |-> "rec_pad", stat |-> "coverage_gc",
                           window_size |-> window_size, window_offset |-> off] >>]

\* Statistics whose record functions read the reference sequence.
NeedsReference(f) == f.stat \in {"variation", "variation_strand", "coverage_gc"}

----------------------------------------------------------------------------
\* The registry, pileup.py:128-143.

RegisteredTypes ==
    {"coverage", "coverage_strand", "coverage_ext", "coverage_ext_strand",
     "variation", "variation_strand", "tlen", "tlen_strand", "mapq",
     "mapq_strand", "baseq", "baseq_strand", "baseq_ext", "baseq_ext_strand"}

\* Variants of the registry: an entry pairing the functions of two types, and
\* an entry holding the functions of another type.
frecs_pileup_mixed_pad ==
    [T \in RegisteredTypes |->
        IF T = "coverage" THEN <<rec("coverage"), rec_pad("variation")>>
        ELSE <<rec(T), rec_pad(T)>>]

frecs_pileup_variation_as_coverage ==
    [T \in RegisteredTypes |->
        IF T = "variation" THEN <<rec("coverage"), rec_pad("coverage")>>
        ELSE <<rec(T), rec_pad(T)>>]

frecs_pileup ==
    [coverage |-> <<rec("coverage"), rec_pad("coverage")>>,
     coverage_strand |-> <<rec("coverage_strand"), rec_pad("coverage_strand")>>,
     coverage_ext |-> <<rec("coverage_ext"), rec_pad("coverage_ext")>>,
     coverage_ext_strand |-> <<rec("coverage_ext_strand"), rec_pad("coverage_ext_strand")>>,
     variation |-> <<rec("variation"), rec_pad("variation")>>,
     variation_strand |-> <<rec("variation_strand"), rec_pad("variation_strand")>>,
     tlen |-> <<rec("tlen"), rec_pad("tlen")>>,
     tlen_strand |-> <<rec("tlen_strand"), rec_pad("tlen_strand")>>,
     mapq |-> <<rec("mapq"), rec_pad("mapq")>>,
     mapq_strand |-> <<rec("mapq_strand"), rec_pad("mapq_strand")>>,
     baseq |-> <<rec("baseq"), rec_pad("baseq")>>,
     baseq_strand |-> <<rec("baseq_strand"), rec_pad("baseq_strand")>>,
     baseq_ext |-> <<rec("baseq_ext"), rec_pad("baseq_ext")>>,
     baseq_ext_strand |-> <<rec("baseq_ext_strand"), rec_pad("baseq_ext_strand")>>]

\* The type names of the documentation, pileup.py:15-17.
DocumentedTypes == RegisteredTypes \cup {"coverage_gc"}

\* pysamstats.config: the types with an attribute 'dtype_' + type (section
\* 4.5: a default dtype per statistic type).
config_dtypes == DocumentedTypes

----------------------------------------------------------------------------
\* The alignment source (external, section 6).  A read is a half-open
\* interval [s, e) of the contig; reads are numbered in provider order,
\* which is coordinate order (by start, then by end).

Reads == {r \in [s : 0..ContigLen - 1, e : 1..ContigLen] : r.s < r.e}

Alignments ==
    {al \in UNION {[1..n -> Reads] : n \in 0..MaxReads} :
        \A i \in 1..Len(al) - 1 :
            \/ al[i].s < al[i + 1].s
            \/ (al[i].s = al[i + 1].s /\ al[i].e <= al[i + 1].e)}

Overlaps(r, start, end) == Max(r.s, start) < Min(r.e, end)

\* The segments of the column at position p when the region [start, end) is
\* read: the reads fetched for the region that span p, in provider order.
Column(al, p, start, end) ==
    SelectSeq([i \in 1..Len(al) |-> i],
              LAMBDA i : Overlaps(al[i], start, end) /\ al[i].s <= p /\ p < al[i].e)

\* The positions at which the source's column generator returns a column for
\* the region [start, end): every position covered by a read that overlaps
\* the region.
ColumnPositions(al, start, end) ==
    {p \in 0..ContigLen - 1 :
        \E i \in 1..Len(al) : /\ Overlaps(al[i], start, end)
                              /\ al[i].s <= p /\ p < al[i].e}

Take(seq, n) == SubSeq(seq, 1, Min(n, Len(seq)))

----------------------------------------------------------------------------
\* The position iterator opt.iter_pileup, section 4.3 and section 7.

\* Step 1: caller coordinates to zero-based half-open bounds.
normalise_coords(start, end, one_based) ==
    [start |-> IF start = None THEN None
               ELSE IF one_based THEN start - 1 ELSE start,
     end   |-> IF end = None THEN None
               ELSE IF one_based THEN end - 1 ELSE end]

NoIt ==
    [frec |-> rec("none"), frec_pad |-> rec_pad("none"), fafile |-> NoFile,
     start |-> 0, end |-> 0, one_based |-> FALSE, truncate |-> FALSE,
     pad |-> FALSE, max_depth |-> 0, cur |-> 0]

\* The call of iter_pileup: eager validation, then a fresh generator.
iter_pileup(frec, frec_pad, alignmentfile, fafile, chrom, start, end, one_based, truncate, pad, max_depth) ==
    LET z == normalise_coords(start, end, one_based)
        lo == IF start = None THEN 0 ELSE z.start
        hi == IF end = None THEN ContigLen ELSE z.end
    IN  IF NeedsReference(frec) /\ fafile = NoFile
        THEN [exc |-> "MissingReferenceError", it |-> NoIt]
        ELSE IF lo < 0 \/ hi < 0 \/ lo > hi
        THEN [exc |-> "InvalidRegion", it |-> NoIt]
        ELSE [exc |-> "none",
              it |-> [frec |-> frec, frec_pad |-> frec_pad, fafile |-> fafile,
                      start |-> lo, end |-> hi, one_based |-> one_based,
                      truncate |-> truncate, pad |-> pad,
                      max_depth |-> max_depth, cur |-> 0]]

\* Positions at which a column is turned into a record (step 2).
RecordPositions(g, al) ==
    {p \in ColumnPositions(al, g.start, g.end) :
        ~g.truncate \/ (g.start <= p /\ p < g.end)}

\* Positions padded because the column generator does not visit them (step 3).
PadPositions(g, al) ==
    IF g.pad
    THEN {p \in g.start..g.end - 1 : p \notin ColumnPositions(al, g.start, g.end)}
    ELSE {}

\* Positions still to be emitted, all at or after the cursor.
Pending(g, al) ==
    {p \in RecordPositions(g, al) \cup PadPositions(g, al) : p >= g.cur}

ReportedPos(g, p) == IF g.one_based THEN p + 1 ELSE p

\* build_record of the active schema on the column capped to max_depth.
build_record(g, al, p) ==
    IF NeedsReference(g.frec) /\ g.fafile = NoFile
    THEN [exc |-> "MissingReferenceError", rec |-> <<>>]
    ELSE [exc |-> "none",
          rec |-> [pos |-> ReportedPos(g, p), by |-> g.frec,
                   segs |-> Take(Column(al, p, g.start, g.end), g.max_depth)]]

\* build_pad_record of the active schema.
build_pad_record(g, p) ==
    IF NeedsReference(g.frec_pad) /\ g.fafile = NoFile
    THEN [exc |-> "MissingReferenceError", rec |-> <<>>]
    ELSE [exc |-> "none",
          rec |-> [pos |-> ReportedPos(g, p), by |-> g.frec_pad, segs |-> <<>>]]

Exhausted(g, al) == Pending(g, al) = {}

\* One resumption of the generator: the record of the least pending position.
Step(g, al) ==
    LET p == CHOOSE q \in Pending(g, al) : \A o \in Pending(g, al) : q <= o
        b == IF p \in RecordPositions(g, al) THEN build_record(g, al, p)
             ELSE build_pad_record(g, p)
    IN  [exc |-> b.exc, rec |-> b.rec, it |-> [g EXCEPT !.cur = p + 1]]

\* The whole record sequence of a generator whose steps do not raise.
RECURSIVE RunAll(_, _)
RunAll(g, al) ==
    IF Exhausted(g, al) THEN <<>>
    ELSE LET s == Step(g, al)
         IN  IF s.exc # "none" THEN <<>> ELSE <<s.rec>> \o RunAll(s.it, al)

----------------------------------------------------------------------------
\* The facade, pileup.py:43-182.

\* The factory call of lines 68-69, with the place of its failure.
gc_schema(window_size, window_offset) ==
    LET f == frecs_coverage_gc(window_size, window_offset)
    IN  [exc |-> f.exc,
         at |-> IF f.exc = "none" THEN "none" ELSE "frecs_coverage_gc",
         pair |-> f.pair]

\* Variant of resolve_schema that lets the KeyError of the lookup escape.
resolve_schema_keyerror(type, kw) ==
    IF type = "coverage_gc"
    THEN gc_schema(kw.window_size, kw.window_offset)
    ELSE IF type \in DOMAIN frecs_pileup
    THEN [exc |-> "none", at |-> "none", pair |-> frecs_pileup[type]]
    ELSE [exc |-> "KeyError", at |-> "stat_pileup:71", pair |-> <<>>]

\* Variant of resolve_schema that builds the coverage_gc pair without the
\* caller's window arguments.
resolve_schema_default_window(type, kw) ==
    IF type = "coverage_gc"
    THEN gc_schema(window_size_default, None)
    ELSE IF type \in DOMAIN frecs_pileup
    THEN [exc |-> "none", at |-> "none", pair |-> frecs_pileup[type]]
    ELSE [exc |-> "UnsupportedType", at |-> "stat_pileup:73", pair |-> <<>>]

\* Lines 65-73: the schema pair of the type, from the factory or the
\* registry; the KeyError of the registry becomes the ValueError
\* 'unsupported statistics type'.
resolve_schema(type, kw) ==
    IF type = "coverage_gc"
    THEN gc_schema(kw.window_size, kw.window_offset)
    ELSE IF type \in DOMAIN frecs_pileup
    THEN [exc |-> "none", at |-> "none", pair |-> frecs_pileup[type]]
    ELSE [exc |-> "UnsupportedType", at |-> "stat_pileup:73", pair |-> <<>>]

\* Lines 75-77: unless resolving the schema raised, the iterator is started
\* on the resolved pair with the arguments fw.
start_iteration(looked, fw) ==
    IF looked.exc # "none"
    THEN [exc |-> looked.exc, at |-> looked.at,
          started |-> FALSE, it |-> NoIt, dtype |-> NoDtype]
    ELSE LET r == iter_pileup(looked.pair[1], looked.pair[2], fw.alignmentfile, fw.fafile, fw.chrom, fw.start, fw.end, fw.one_based, fw.truncate, fw.pad, fw.max_depth)
         IN  [exc |-> r.exc,
              at |-> IF r.exc = "none" THEN "none" ELSE "iter_pileup",
              started |-> TRUE, it |-> r.it, dtype |-> NoDtype]

\* Variants of stat_pileup that do not forward one of the caller's arguments.
stat_pileup_drops_pad(type, kw) ==
    start_iteration(resolve_schema(type, kw), [kw EXCEPT !.pad = FALSE])

stat_pileup_always_pads(type, kw) ==
    start_iteration(resolve_schema(type, kw), [kw EXCEPT !.pad = TRUE])

stat_pileup_zero_based(type, kw) ==
    start_iteration(resolve_schema(type, kw), [kw EXCEPT !.one_based = FALSE])

stat_pileup_default_depth(type, kw) ==
    start_iteration(resolve_schema(type, kw),
                    [kw EXCEPT !.max_depth = max_depth_default])

\* pileup.py:43-77.  kw holds the keyword arguments of the call.
stat_pileup(type, kw) == start_iteration(resolve_schema(type, kw), kw)

\* util.load_stats (section 4.5): starts the record sequence of stat and
\* materialises it under the user's dtype, or the default one.
load_stats(stat_type, user_dtype, default_dtype, kw) ==
    LET r == stat_pileup(stat_type, kw)
    IN  [r EXCEPT !.dtype = IF r.exc # "none" THEN NoDtype
                            ELSE IF user_dtype # NoDtype THEN user_dtype
                            ELSE default_dtype]

\* Variant of load_pileup that needs no default dtype when the caller gives one.
load_pileup_dtype_override(type, kw) ==
    IF type \notin config_dtypes /\ kw.dtype = NoDtype
    THEN [exc |-> "UnsupportedType", at |-> "load_pileup:116",
          started |-> FALSE, it |-> NoIt, dtype |-> NoDtype]
    ELSE load_stats(type, kw.dtype, "dtype_default", kw)

\* pileup.py:84-122.
load_pileup(type, kw) ==
    IF type \notin config_dtypes
    THEN [exc |-> "UnsupportedType", at |-> "load_pileup:116",
          started |-> FALSE, it |-> NoIt, dtype |-> NoDtype]
    ELSE load_stats(type, kw.dtype, "dtype_default", kw)

\* pileup.py:157-164: the two partial applications made for a type.
_specialize(type) ==
    [stat |-> [func |-> "stat_pileup", type |-> type],
     load |-> [func |-> "load_pileup", type |-> type]]

\* Variant of the named functions with two names bound to each other's type.
named_functions_tlen_swapped ==
    [T \in DocumentedTypes |->
        _specialize(IF T = "tlen" THEN "tlen_strand"
                    ELSE IF T = "tlen_strand" THEN "tlen" ELSE T)]

\* pileup.py:167-182: the named functions, keyed by the T of stat_T, load_T.
named_functions ==
    [coverage |-> _specialize("coverage"),
     coverage_strand |-> _specialize("coverage_strand"),
     coverage_ext |-> _specialize("coverage_ext"),
     coverage_ext_strand |-> _specialize("coverage_ext_strand"),
     variation |-> _specialize("variation"),
     variation_strand |-> _specialize("variation_strand"),
     tlen |-> _specialize("tlen"),
     tlen_strand |-> _specialize("tlen_strand"),
     mapq |-> _specialize("mapq"),
     mapq_strand |-> _specialize("mapq_strand"),
     baseq |-> _specialize("baseq"),
     baseq_strand |-> _specialize("baseq_strand"),
     baseq_ext |-> _specialize("baseq_ext"),
     baseq_ext_strand |-> _specialize("baseq_ext_strand"),
     coverage_gc |-> _specialize("coverage_gc")]

\* functools.partial.__call__: the bound function on the bound type.
call_partial(p, kw) ==
    IF p.func = "stat_pileup" THEN stat_pileup(p.type, kw)
    ELSE load_pileup(p.type, kw)

----------------------------------------------------------------------------
\* The calls a client makes.

TypeNames == DocumentedTypes \cup {"bogus"}

Coords == {None} \cup 0..ContigLen

Kwargs(al, fafiles, starts, ends, depths, sizes, offsets, dtypes) ==
    [alignmentfile : {al}, fafile : fafiles, chrom : {"chr1"},
     start : starts, end : ends, one_based : BOOLEAN, truncate : BOOLEAN,
     pad : BOOLEAN, max_depth : depths, window_size : sizes,
     window_offset : offsets, dtype : dtypes]

\* Arguments exercising the facade: every parameter takes a default and a
\* non-default value; the region is the whole contig, a proper one or an
\* inverted one.
FacadeKwargs(al, dtypes) ==
    {kw \in Kwargs(al, {NoFile, FastaFile}, {None, 1, 2}, {None, 1, ContigLen},
                   {1, max_depth_default}, {0, window_size_default},
                   {None, 1}, dtypes) :
        (kw.start = None) = (kw.end = None) /\ (kw.start = 2 => kw.end = 1)
        /\ (kw.start = 1 => kw.end = ContigLen)}

\* Arguments exercising the iteration: every region and depth cap.
IterKwargs(al) ==
    Kwargs(al, {FastaFile}, Coords, Coords,
           0..MaxDepthArg \cup {max_depth_default}, {window_size_default},
           {None}, {NoDtype})

Enter(entry, type, kw, r) ==
    /\ pc = "idle"
    /\ call' = [entry |-> entry, type |-> type, kw |-> kw]
    /\ ret' = r
    /\ it' = r.it
    /\ err' = r.exc
    /\ raised_at' = r.at
    /\ pc' = IF r.exc = "none" THEN "iterating" ELSE "raised"
    /\ UNCHANGED <<alignment, emitted>>

\* stat_pileup(type, ...)
StatPileup(type, kw) == Enter("stat_pileup", type, kw, stat_pileup(type, kw))

\* load_pileup(type, ..., dtype=...)
LoadPileup(type, kw) == Enter("load_pileup", type, kw, load_pileup(type, kw))

\* stat_T(...)
StatNamed(T, kw) ==
    Enter("stat_T", T, kw, call_partial(named_functions[T].stat, kw))

\* load_T(..., dtype=...)
LoadNamed(T, kw) ==
    Enter("load_T", T, kw, call_partial(named_functions[T].load, kw))

\* The consumer (the caller of stat_*, or the array loader) pulls one record.
NextRecord ==
    /\ pc = "iterating"
    /\ ~Exhausted(it, alignment)
    /\ LET s == Step(it, alignment)
       IN  IF s.exc = "none"
           THEN /\ emitted' = Append(emitted, s.rec)
                /\ it' = s.it
                /\ UNCHANGED <<pc, err, raised_at>>
           ELSE /\ pc' = "raised"
                /\ err' = s.exc
                /\ raised_at' = "next"
                /\ UNCHANGED <<emitted, it>>
    /\ UNCHANGED <<alignment, call, ret>>

\* The generator is exhausted: the sequence (or the loaded table) is complete.
StopIteration ==
    /\ pc = "iterating"
    /\ Exhausted(it, alignment)
    /\ pc' = "done"
    /\ UNCHANGED <<alignment, call, ret, it, emitted, err, raised_at>>

\* An I/O failure of the alignment or reference provider propagates unmodified.
ProviderFails ==
    /\ pc = "iterating"
    /\ pc' = "raised"
    /\ err' = "IOError"
    /\ raised_at' = "next"
    /\ UNCHANGED <<alignment, call, ret, it, emitted>>

Idle ==
    /\ call = [entry |-> "none", type |-> "none"]
    /\ pc = "idle"
    /\ ret = [exc |-> "none", at |-> "none", started |-> FALSE, it |-> NoIt,
              dtype |-> NoDtype]
    /\ it = NoIt
    /\ emitted = <<>>
    /\ err = "none"
    /\ raised_at = "none"

\* Two reads stacked at position 1; the last position of the contig is bare.
SampleAlignment == << [s |-> 0, e |-> 2], [s |-> 1, e |-> 2] >>

Init == alignment \in {<<>>, SampleAlignment} /\ Idle

Next ==
    \/ /\ pc = "idle"
       /\ \E type \in TypeNames, kw \in FacadeKwargs(alignment, {NoDtype}) :
             StatPileup(type, kw)
    \/ /\ pc = "idle"
       /\ \E type \in TypeNames, kw \in FacadeKwargs(alignment, {NoDtype, UserDtype}) :
             LoadPileup(type, kw)
    \/ /\ pc = "idle"
       /\ \E T \in DOMAIN named_functions, kw \in FacadeKwargs(alignment, {NoDtype}) :
             StatNamed(T, kw)
    \/ /\ pc = "idle"
       /\ \E T \in DOMAIN named_functions, kw \in FacadeKwargs(alignment, {NoDtype, UserDtype}) :
             LoadNamed(T, kw)
    \/ NextRecord
    \/ StopIteration
    \/ ProviderFails

Spec == Init /\ [][Next]_vars

\* The iteration engine under every alignment, region and depth cap.
InitIter == alignment \in Alignments /\ Idle

NextIter ==
    \/ /\ pc = "idle"
       /\ \E type \in {"coverage"}, kw \in IterKwargs(alignment) :
             StatPileup(type, kw)
    \/ NextRecord
    \/ StopIteration

SpecIter == InitIter /\ [][NextIter]_vars

----------------------------------------------------------------------------
\* Vocabulary of the properties.

Called == pc # "idle"

Generic == call.entry \in {"stat_pileup", "load_pileup"}

IsStat == call.entry \in {"stat_pileup", "stat_T"}

IsLoad == call.entry \in {"load_pileup", "load_T"}

EagerErrors ==
    {"UnsupportedType", "MissingReferenceError", "InvalidRegion",
     "InvalidWindowConfig"}

ReferenceTypes == {"variation", "variation_strand", "coverage_gc"}

\* The generic entry point of the same family, on type and kw.
GenericOutcome(type, kw) ==
    IF IsStat THEN stat_pileup(type, kw) ELSE load_pileup(type, kw)

IsPrefix(p, q) == Len(p) <= Len(q) /\ SubSeq(q, 1, Len(p)) = p

RegionValid(kw) ==
    LET z == normalise_coords(kw.start, kw.end, kw.one_based)
        lo == IF kw.start = None THEN 0 ELSE z.start
        hi == IF kw.end = None THEN ContigLen ELSE z.end
    IN  0 <= lo /\ lo <= hi

----------------------------------------------------------------------------
\* C1: stat_pileup raises UnsupportedType exactly for the type names that are
\* neither one of the 14 registered keys nor 'coverage_gc', and raises it in
\* the call itself: opt.iter_pileup has not been started and no record has
\* been produced.
C1_UnsupportedTypeAtCall ==
    (Called /\ call.entry = "stat_pileup") =>
        IF call.type \notin RegisteredTypes \cup {"coverage_gc"}
        THEN /\ pc = "raised" /\ err = "UnsupportedType"
             /\ raised_at = "stat_pileup:73"
             /\ ~ret.started /\ emitted = <<>>
        ELSE err # "UnsupportedType"

C1_Witness ==
    /\ call.entry = "stat_pileup" /\ call.type = "bogus"
    /\ pc = "raised" /\ err = "UnsupportedType"

\* C2 as stated: load_pileup fails with UnsupportedType when the type has no
\* default dtype and the caller gives none, and a missing default dtype is no
\* reason to fail when the caller gives a dtype.
C2_DtypeOverrideSpared ==
    (Called /\ call.entry = "load_pileup") =>
        /\ (call.type \notin config_dtypes /\ call.kw.dtype = NoDtype)
              => err = "UnsupportedType"
        /\ call.kw.dtype # NoDtype => raised_at # "load_pileup:116"

\* C2, amended: load_pileup fails with UnsupportedType at its default-dtype
\* lookup exactly when the type has no default dtype, whether or not the
\* caller gives a dtype, and before stat_pileup is called; the dtype of the
\* table is the caller's when given, else the default.
C2_NoDefaultDtypeAlwaysFails ==
    (Called /\ call.entry = "load_pileup") =>
        /\ (call.type \notin config_dtypes) <=> (raised_at = "load_pileup:116")
        /\ raised_at = "load_pileup:116" =>
              /\ pc = "raised" /\ err = "UnsupportedType"
              /\ ~ret.started /\ emitted = <<>>
        /\ err = "none" =>
              ret.dtype = IF call.kw.dtype # NoDtype THEN call.kw.dtype
                          ELSE "dtype_default"

C2_Witness ==
    /\ call.entry = "load_pileup" /\ call.type = "bogus"
    /\ call.kw.dtype = UserDtype
    /\ pc = "raised" /\ raised_at = "load_pileup:116"

\* C3: an UnsupportedType, MissingReferenceError, InvalidRegion or
\* InvalidWindowConfig failure is raised by the call, never by a later pull:
\* no record has been emitted when it is raised.
C3_EagerErrorsBeforeRecords ==
    err \in EagerErrors => (emitted = <<>> /\ raised_at # "next" /\ pc = "raised")

\* A call that would have padded and built records fails on its missing
\* reference before the first of them.
C3_Witness ==
    /\ pc = "raised" /\ err = "MissingReferenceError" /\ call.kw.pad
    /\ call.type = "variation" /\ alignment # <<>>

C5_NamedEqualsGeneric ==
    Called =>
        /\ ~Generic =>
              /\ ret = GenericOutcome(call.type, call.kw)
              /\ ret.exc = "none" =>
                    IsPrefix(emitted, RunAll(GenericOutcome(call.type, call.kw).it,
                                             alignment))
        /\ IsLoad => ((ret.exc = "UnsupportedType")
                        <=> (stat_pileup(call.type, call.kw).exc = "UnsupportedType"))

C5_Witness ==
    /\ call.entry = "load_T" /\ call.type = "tlen" /\ pc = "done"
    /\ Len(emitted) >= 2

\* C6: the pair handed to the iterator is, for a registered type T, the
\* record and pad-record functions of T itself; for coverage_gc, the pair
\* closed over the caller's window_size and window_offset (window_size // 2
\* when absent); for every other type the window arguments change nothing.
C6_SchemaResolution ==
    Called =>
        /\ call.type # "coverage_gc" =>
              ret = GenericOutcome(call.type,
                       [call.kw EXCEPT !.window_size = window_size_default,
                                       !.window_offset = None])
        /\ (call.type \in RegisteredTypes /\ ret.exc = "none") =>
              /\ ret.it.frec = rec(call.type)
              /\ ret.it.frec_pad = rec_pad(call.type)
        /\ (call.type = "coverage_gc" /\ ret.exc = "none") =>
              LET off == IF call.kw.window_offset = None
                         THEN call.kw.window_size \div 2
                         ELSE call.kw.window_offset
                  w == [stat |-> "coverage_gc",
                        window_size |-> call.kw.window_size,
                        window_offset |-> off]
              IN  /\ ret.it.frec = [fn |-> "rec"] @@ w
                  /\ ret.it.frec_pad = [fn |-> "rec_pad"] @@ w
        /\ \A i \in 1..Len(emitted) :
              /\ emitted[i].by \in {ret.it.frec, ret.it.frec_pad}
              /\ emitted[i].by.stat = call.type

C6_Witness ==
    /\ call.type = "coverage_gc" /\ pc = "iterating"
    /\ call.kw.window_offset = None
    /\ it.frec.window_offset = window_size_default \div 2

----------------------------------------------------------------------------
\* Properties of the emitted sequence.

\* Zero-based position of the i-th emitted record.
PosOf(i) == IF call.kw.one_based THEN emitted[i].pos - 1 ELSE emitted[i].pos

IsPadRecord(r) == r.by.fn = "rec_pad"

\* The positions lo, lo + 1, ..., hi - 1 in order.
Range(lo, hi) == [i \in 1..(hi - lo) |-> lo + i - 1]

EmittedPositions == [i \in 1..Len(emitted) |-> PosOf(i)]

Contiguous == \A i \in 1..Len(emitted) - 1 : PosOf(i + 1) = PosOf(i) + 1

\* C7 as stated: with pad=True, for either value of truncate, a completed
\* iteration has emitted exactly the positions start, ..., end - 1 of the
\* region, once each and in order.
C7_PadExactlyRegion ==
    (pc = "done" /\ call.kw.pad) => EmittedPositions = Range(it.start, it.end)

\* C7, amended: with pad=True the emitted positions increase by exactly one
\* from record to record; with truncate=True as well, a completed iteration
\* has emitted exactly the end - start positions of [start, end); with
\* truncate=False it has emitted every position of [start, end) once, and
\* besides them only positions outside the region that a read overlapping
\* the region covers.
C7_PadCoversRegion ==
    (pc \in {"iterating", "done"} /\ call.kw.pad) =>
        /\ Contiguous
        /\ (pc = "done" /\ call.kw.truncate) =>
              EmittedPositions = Range(it.start, it.end)
        /\ pc = "done" =>
              /\ \A p \in it.start..it.end - 1 :
                    Cardinality({i \in 1..Len(emitted) : PosOf(i) = p}) = 1
              /\ \A i \in 1..Len(emitted) :
                    (PosOf(i) < it.start \/ PosOf(i) >= it.end) =>
                        /\ ~call.kw.truncate
                        /\ ~IsPadRecord(emitted[i])
                        /\ PosOf(i) \in ColumnPositions(alignment, it.start, it.end)

C7_Witness ==
    /\ pc = "done" /\ call.kw.pad /\ call.kw.truncate
    /\ Len(emitted) = it.end - it.start
    /\ \E i, j \in 1..Len(emitted) :
          IsPadRecord(emitted[i]) /\ ~IsPadRecord(emitted[j])
    /\ \E p \in ColumnPositions(alignment, it.start, it.end) : p < it.start

\* C8 as stated: with pad=False every emitted record is of a position that
\* has at least one segment after max_depth capping, for every max_depth.
C8_NoPadOnlyCappedCovered ==
    (Called /\ ~call.kw.pad) =>
        \A i \in 1..Len(emitted) : Len(emitted[i].segs) >= 1

\* C8, amended: with pad=False every emitted record is built by the record
\* function from a column the source returned, that is, of a position with at
\* least one overlapping read, and no record is emitted for an uncovered
\* position; the record holds at least one segment after capping whenever
\* max_depth >= 1 (with max_depth = 0 covered positions still get a record,
\* which holds no segment).
C8_NoPadOnlyCovered ==
    (Called /\ ~call.kw.pad) =>
        \A i \in 1..Len(emitted) :
            /\ ~IsPadRecord(emitted[i])
            /\ Column(alignment, PosOf(i), it.start, it.end) # <<>>
            /\ call.kw.max_depth >= 1 => Len(emitted[i].segs) >= 1
            /\ call.kw.max_depth = 0 => emitted[i].segs = <<>>

C8_Witness ==
    /\ pc = "done" /\ ~call.kw.pad /\ call.kw.max_depth = 1
    /\ Len(emitted) >= 1
    /\ Len(emitted) < it.end - it.start
    /\ \E p \in it.start..it.end - 1 :
          Column(alignment, p, it.start, it.end) = <<>>

\* The call on the same genomic interval in zero-based coordinates.
ZeroBasedTwin(kw) ==
    LET z == normalise_coords(kw.start, kw.end, kw.one_based)
    IN  [kw EXCEPT !.one_based = FALSE, !.start = z.start, !.end = z.end]

ShiftPos(recs, d) == [i \in 1..Len(recs) |-> [recs[i] EXCEPT !.pos = @ + d]]

\* C9: the records of a one_based=True call are those of the one_based=False
\* call on the same alignment data and genomic interval, each position
\* increased by 1: same number, same order, same other fields, for every
\* truncate and pad.
C9_OneBasedShift ==
    (pc \in {"iterating", "done"} /\ call.kw.one_based) =>
        LET twin == stat_pileup(call.type, ZeroBasedTwin(call.kw))
            recs == ShiftPos(RunAll(twin.it, alignment), 1)
        IN  /\ twin.exc = "none"
            /\ IsPrefix(emitted, recs)
            /\ pc = "done" => emitted = recs

C9_Witness ==
    /\ pc = "done" /\ call.kw.one_based /\ call.kw.pad
    /\ Len(emitted) >= 2 /\ emitted[1].pos = 1
    /\ \E i \in 1..Len(emitted) : ~IsPadRecord(emitted[i])

\* The alignment without the segments of the column at p that follow its
\* first n segments: its column at p holds exactly those n.
CapColumn(al, p, n, start, end) ==
    LET col == Column(al, p, start, end)
        excess == {col[k] : k \in (n + 1)..Len(col)}
        kept == SelectSeq([j \in 1..Len(al) |-> j], LAMBDA j : j \notin excess)
    IN  [k \in 1..Len(kept) |-> al[kept[k]]]

\* C10: every record built from a column holds the first max_depth segments
\* of the column in provider order, max_depth being the caller's argument
\* (8000 when omitted); a column of N > max_depth segments gives the record
\* built from the column holding only its first max_depth segments.
C10_DepthCap ==
    Called =>
        \A i \in 1..Len(emitted) :
            ~IsPadRecord(emitted[i]) =>
                LET col == Column(alignment, PosOf(i), it.start, it.end)
                    md == call.kw.max_depth
                    capped == CapColumn(alignment, PosOf(i), md, it.start, it.end)
                IN  /\ emitted[i].segs = Take(col, md)
                    /\ Len(col) > md =>
                          /\ Len(Column(capped, PosOf(i), it.start, it.end)) = md
                          /\ emitted[i] =
                                build_record([it EXCEPT !.max_depth = md],
                                             capped, PosOf(i)).rec

C10_Witness ==
    /\ Called
    /\ call.kw.max_depth = 1
    /\ \E i \in 1..Len(emitted) :
          /\ Len(Column(alignment, PosOf(i), it.start, it.end)) > 1
          /\ emitted[i].segs = <<1>>

====
